---- MODULE Spec2Model ----
(***************************************************************************)
(* SafeLink Agent Core (backend/app/main.py): the /incident triage         *)
(* pipeline, the in-memory INCIDENT_QUEUE and the diagnostic endpoints.    *)
(*                                                                         *)
(* Texts (Python str) are sequences of one-character strings, so that      *)
(* lower(), strip(), `in`, len() and slicing are computed character by     *)
(* character.  The Bedrock runtime is an opaque collaborator: every        *)
(* invoke_model call either raises or yields a decoded JSON body, chosen   *)
(* nondeterministically.                                                   *)
(***************************************************************************)
EXTENDS Integers, Sequences, FiniteSets, TLC

\* ---------------------------------------------------------------- bounds
\* number of POST /incident calls made during one process lifetime
MaxReqs == 2
\* number of vocabulary fragments concatenated into one message
MaxFrags == 2

\* ------------------------------------------------------ program constants
\* main.py:101-102  `if len(output_text) > 500: output_text[:500] + "..."`
TrimCap == 500

\* ------------------------------------------------------------- text model
Whitespace == {" ", "\t", "\n"}

UpperLetters ==
    <<"A", "B", "C", "D", "E", "F", "G", "H", "I", "J", "K", "L", "M", "N",
      "O", "P", "Q", "R", "S", "T", "U", "V", "W", "X", "Y", "Z">>

LowerLetters ==
    <<"a", "b", "c", "d", "e", "f", "g", "h", "i", "j", "k", "l", "m", "n",
      "o", "p", "q", "r", "s", "t", "u", "v", "w", "x", "y", "z">>

\* str.lower() on one character
lower_char(c) ==
    IF \E i \in 1..26 : UpperLetters[i] = c
    THEN LowerLetters[CHOOSE i \in 1..26 : UpperLetters[i] = c]
    ELSE c

\* str.lower()
lower(text) == [i \in 1..Len(text) |-> lower_char(text[i])]

\* Python `needle in text` on strings: substring test
Contains(needle, text) ==
    \E i \in 1..(Len(text) - Len(needle) + 1) :
        SubSeq(text, i, i + Len(needle) - 1) = needle

\* str.strip(): drop leading and trailing whitespace
RECURSIVE first_kept(_, _)
first_kept(text, i) ==
    IF i > Len(text) \/ text[i] \notin Whitespace THEN i
    ELSE first_kept(text, i + 1)

RECURSIVE last_kept(_, _)
last_kept(text, i) ==
    IF i < 1 \/ text[i] \notin Whitespace THEN i
    ELSE last_kept(text, i - 1)

strip(text) ==
    LET first == first_kept(text, 1)
        last  == last_kept(text, Len(text))
    IN  IF first > last THEN <<>> ELSE SubSeq(text, first, last)

\* dict.get(key, default)
dict_get(d, key, default) == IF key \in DOMAIN d THEN d[key] ELSE default

\* ---------------------------------------------------------- fixed strings
\* main.py:110
ErrorText ==
    <<"E", "r", "r", "o", "r", ":", " ", "U", "n", "a", "b", "l", "e", " ",
      "t", "o", " ", "p", "r", "o", "c", "e", "s", "s", " ", "r", "e", "q",
      "u", "e", "s", "t">>

\* main.py:98
NoResponseText ==
    <<"N", "o", " ", "r", "e", "s", "p", "o", "n", "s", "e", " ", "f", "r",
      "o", "m", " ", "m", "o", "d", "e", "l", ".">>

\* main.py:136 (a str, not a list: enumerate() walks it character by character)
UncertainText ==
    <<"I", " ", "a", "m", " ", "u", "n", "c", "e", "r", "t", "a", "i", "n",
      " ", "a", "b", "o", "u", "t", " ", "t", "h", "e", " ", "S", "O", "S",
      " ", "s", "t", "e", "p", "s", ".", " ", "P", "l", "e", "a", "s", "e",
      " ", "c", "a", "l", "l", " ", "9", "1", "1">>

\* main.py:102
Ellipsis == <<".", ".", ".">>

\* main.py:154-158 keyword literals
KwFaint        == <<"f", "a", "i", "n", "t">>
KwCollapsed    == <<"c", "o", "l", "l", "a", "p", "s", "e", "d">>
KwNotBreathing == <<"n", "o", "t", " ", "b", "r", "e", "a", "t", "h", "i", "n", "g">>
KwChemical     == <<"c", "h", "e", "m", "i", "c", "a", "l">>
KwSpill        == <<"s", "p", "i", "l", "l">>
KwShoot        == <<"s", "h", "o", "o", "t">>
KwGun          == <<"g", "u", "n">>

\* ------------------------------------------------------------ SOP playbooks
\* main.py:35-55.  A dict with exactly three keys; each step is one str.
SOS_PLAYBOOKS ==
    [c \in {"Medical Emergency", "Hazmat", "Active Shooter"} |->
        CASE c = "Medical Emergency" ->
               << "Call 911 immediately via FirstNet.",
                  "Provide exact location to dispatcher.",
                  "Begin CPR if trained.",
                  "Use AED if available and follow prompts.",
                  "Stay with the person until responders arrive." >>
          [] c = "Hazmat" ->
               << "Move upwind, uphill, and upstream from the spill.",
                  "Call 911 and notify HazMat response team.",
                  "Isolate and deny entry to the affected area.",
                  "Follow command center evacuation orders." >>
          [] c = "Active Shooter" ->
               << "Call 911 immediately via FirstNet.",
                  "Follow 'Run, Hide, Fight' protocol.",
                  "Provide dispatcher with number of shooters, location, and description.",
                  "Do not approach law enforcement until cleared." >>]

\* ----------------------------------------------------------- call_bedrock
\* main.py:81-110.  resp is what invoke_model + json.loads produce for this
\* call: resp.raises = TRUE stands for any exception inside the try block
\* (transport error, timeout, malformed JSON, non-string generation);
\* otherwise resp.body is the decoded JSON object.
call_bedrock_untrimmed(prompt, resp) ==
    IF resp.raises
    THEN ErrorText
    ELSE LET stripped == strip(dict_get(resp.body, "generation", <<>>))
         IN  IF stripped = <<>> THEN NoResponseText ELSE stripped

call_bedrock(prompt, resp) ==
    IF resp.raises
    THEN ErrorText
    ELSE LET raw_output  == resp.body
             stripped    == strip(dict_get(raw_output, "generation", <<>>))
             output_text == IF stripped = <<>> THEN NoResponseText ELSE stripped
         IN  IF Len(output_text) > TrimCap
             THEN SubSeq(output_text, 1, TrimCap) \o Ellipsis
             ELSE output_text

\* main.py:113-115
severity_tool(message, resp) ==
    call_bedrock(<<"Classify the severity of this incident in ONE word (High, Medium, Low) ONLY: ",
                   message>>, resp)

\* main.py:117-119
summarization_tool(message, resp) ==
    call_bedrock(<<"Summarize this incident in ONE short sentence, concise for responders: ",
                   message>>, resp)

\* ---------------------------------------------------- categorize_incident
categorize_incident_hazmat_first(text) ==
    LET text_lower == lower(text)
    IN  IF Contains(KwChemical, text_lower) \/ Contains(KwSpill, text_lower)
        THEN "Hazmat"
        ELSE IF Contains(KwFaint, text_lower) \/ Contains(KwCollapsed, text_lower)
                \/ Contains(KwNotBreathing, text_lower)
        THEN "Medical Emergency"
        ELSE IF Contains(KwShoot, text_lower) \/ Contains(KwGun, text_lower)
        THEN "Active Shooter"
        ELSE "General Incident"

\* main.py:152-161
categorize_incident(text) ==
    LET text_lower == lower(text)
    IN  IF Contains(KwFaint, text_lower) \/ Contains(KwCollapsed, text_lower)
           \/ Contains(KwNotBreathing, text_lower)
        THEN "Medical Emergency"
        ELSE IF Contains(KwChemical, text_lower) \/ Contains(KwSpill, text_lower)
        THEN "Hazmat"
        ELSE IF Contains(KwShoot, text_lower) \/ Contains(KwGun, text_lower)
        THEN "Active Shooter"
        ELSE "General Incident"

\* ------------------------------------------------------------ build_prompt
\* main.py:164-178.  The prompt is kept as its parts: the fixed template
\* lines, the two interpolated values, and sop_text as the sequence of lines
\* that "\n".join() separates.  A line f"{i + 1}. {step}" is the triple
\* <<i + 1, ". ", step>>, i being enumerate()'s 0-based index.
build_prompt_zero_indexed(incident_text, category, sop_steps) ==
    [ role        |-> "You are a FirstNet public safety assistant.",
      rule        |-> "Do NOT invent new steps. Use only the SOP steps provided below.",
      incident    |-> incident_text,
      category    |-> category,
      sop_text    |-> [k \in 1..Len(sop_steps) |-> <<k - 1, ". ", sop_steps[k]>>],
      format      |-> "Format the response as a checklist for the responder." ]

build_prompt(incident_text, category, sop_steps) ==
    LET sop_text == [k \in 1..Len(sop_steps) |->
                        LET i == k - 1 IN <<i + 1, ". ", sop_steps[k]>>]
    IN  [ role        |-> "You are a FirstNet public safety assistant.",
          rule        |-> "Do NOT invent new steps. Use only the SOP steps provided below.",
          incident    |-> incident_text,
          category    |-> category,
          sop_text    |-> sop_text,
          format      |-> "Format the response as a checklist for the responder." ]

\* ------------------------------------------------------------- list.append
list_append_front(queue, item) == <<item>> \o queue

list_append_evicting(queue, item) ==
    IF queue = <<>> THEN <<item>> ELSE Tail(queue) \o <<item>>

\* main.py:147  INCIDENT_QUEUE.append(incident): one atomic list operation
list_append(queue, item) == Append(queue, item)

\* ------------------------------------------------------------------ inputs
\* message fragments; a message is a concatenation of at most MaxFrags of them
Vocabulary ==
    { <<"F", "a", "i", "n", "t">>,
      <<"c", "o", "l", "l", "a", "p", "s", "e", "d">>,
      <<"n", "o", "t", " ">>,
      <<"b", "r", "e", "a", "t", "h", "i", "n", "g">>,
      <<"C", "H", "E", "M", "I", "C", "A", "L">>,
      <<"s", "p", "i", "l", "l">>,
      <<"S", "h", "o", "o", "t">>,
      <<"g">>,
      <<"U", "N">>,
      <<"f", "i", "r", "e", " ">>,
      <<"m", "i", "n", "o", "r", " ">> }

RECURSIVE MessagesOf(_)
MessagesOf(n) ==
    IF n = 0 THEN {<<>>}
    ELSE LET shorter == MessagesOf(n - 1)
         IN  shorter \cup {m \o f : m \in shorter, f \in Vocabulary}

AllMessages == MessagesOf(MaxFrags)

\* the messages of the concurrent runs: "" and "fire gUN"
PipelineMessages ==
    { <<>>, <<"f", "i", "r", "e", " ", "g", "U", "N">> }

\* backend outcomes
Raises == [raises |-> TRUE]
Returns(body) == [raises |-> FALSE, body |-> body]

\* the outcomes of the concurrent runs: a failure, and the generation " Low\n"
PipelineOutcomes ==
    { Raises, Returns([generation |-> <<" ", "L", "o", "w", "\n">>]) }

\* generated texts around the cap: n body characters between lead and trail
\* whitespace characters
BodyLetters == <<"s", "t", "a", "y", " ", "c", "a", "l", "m", ".">>
Body(n) == [i \in 1..n |-> BodyLetters[(i % Len(BodyLetters)) + 1]]
Blank(n) == [i \in 1..n |-> IF i % 2 = 1 THEN " " ELSE "\n"]
Generated(lead, n, trail) == Blank(lead) \o Body(n) \o Blank(trail)

\* raw and stripped lengths on both sides of the cap
CapGenerations ==
    { Generated(0, 0, 0),                 \* empty
      Generated(2, 0, 1),                 \* whitespace only
      Generated(0, TrimCap, 0),           \* exactly the cap
      Generated(2, TrimCap, 1),           \* over the cap only before strip()
      Generated(0, TrimCap + 1, 0),       \* one over the cap
      Generated(2, 2 * TrimCap, 1) }      \* twice the cap

CapOutcomes ==
    { Raises, Returns([outputs |-> Body(TrimCap + 1)]) }
    \cup { Returns([generation |-> g]) : g \in CapGenerations }

\* /bedrock-test payloads: with and without a "prompt" key
TestPayloads == { [prompt |-> <<"h", "i">>], [note |-> <<"h", "i">>] }

\* ------------------------------------------------------------------- state
Reqs == 1..MaxReqs

VARIABLES
    pc,              \* per call of handle_incident: where it stands
    message,         \* report.message
    severity,        \* local `severity`
    summary,         \* local `summary`
    category,        \* local `category`
    sos_steps,       \* local `sos_steps`
    prompt,          \* local `prompt`: <<>> before it is built, else <<p>>
    guidance,        \* local `guidance`
    replies,         \* what the backend did in each invoke_model call so far
    exc,             \* the exception that ended the request, "" if none
    heap,            \* the dict objects created at main.py:142, by request
    INCIDENT_QUEUE,  \* the module-level list: references to dict objects
    response,        \* handle_incident's return value: <<>> or <<reference>>
    last_response,   \* return value of the latest call of another endpoint
    test_reply       \* what the backend did in the latest /bedrock-test call

vars == << pc, message, severity, summary, category, sos_steps, prompt,
           guidance, replies, exc, heap, INCIDENT_QUEUE, response,
           last_response, test_reply >>

locals == << message, severity, summary, category, sos_steps, prompt,
             guidance, replies, exc >>

\* the records a reader of INCIDENT_QUEUE sees, in list order
QueueRecords == [i \in 1..Len(INCIDENT_QUEUE) |-> heap[INCIDENT_QUEUE[i]]]

\* main.py:78 and module load
Init ==
    /\ pc = [r \in Reqs |-> "idle"]
    /\ message = [r \in Reqs |-> <<>>]
    /\ severity = [r \in Reqs |-> <<>>]
    /\ summary = [r \in Reqs |-> <<>>]
    /\ category = [r \in Reqs |-> ""]
    /\ sos_steps = [r \in Reqs |-> <<>>]
    /\ prompt = [r \in Reqs |-> <<>>]
    /\ guidance = [r \in Reqs |-> <<>>]
    /\ replies = [r \in Reqs |-> <<>>]
    /\ exc = [r \in Reqs |-> ""]
    /\ heap = [r \in {} |-> r]
    /\ INCIDENT_QUEUE = <<>>
    /\ response = [r \in Reqs |-> <<>>]
    /\ last_response = [kind |-> "none"]
    /\ test_reply = Raises

\* ------------------------------------------------------- POST /incident
\* main.py:126-129: the request arrives and blocks in severity_tool's backend
\* call.  Requests are numbered in order of arrival.
Arrive(r, m) ==
    /\ pc[r] = "idle"
    /\ \A q \in Reqs : q < r => pc[q] # "idle"
    /\ pc' = [pc EXCEPT ![r] = "severity"]
    /\ message' = [message EXCEPT ![r] = m]
    /\ UNCHANGED << severity, summary, category, sos_steps, prompt, guidance,
                    replies, exc, heap, INCIDENT_QUEUE, response,
                    last_response, test_reply >>

\* main.py:129: the severity call returns; the request blocks in the
\* summarization call
SeverityReturn(r, resp) ==
    /\ pc[r] = "severity"
    /\ severity' = [severity EXCEPT ![r] = severity_tool(message[r], resp)]
    /\ replies' = [replies EXCEPT ![r] = Append(@, resp)]
    /\ pc' = [pc EXCEPT ![r] = "summary"]
    /\ UNCHANGED << message, summary, category, sos_steps, prompt, guidance,
                    exc, heap, INCIDENT_QUEUE, response, last_response,
                    test_reply >>

\* main.py:130: the summarization call returns
SummaryReturn(r, resp) ==
    /\ pc[r] = "summary"
    /\ summary' = [summary EXCEPT ![r] = summarization_tool(message[r], resp)]
    /\ replies' = [replies EXCEPT ![r] = Append(@, resp)]
    /\ pc' = [pc EXCEPT ![r] = "compose"]
    /\ UNCHANGED << message, severity, category, sos_steps, prompt, guidance,
                    exc, heap, INCIDENT_QUEUE, response, last_response,
                    test_reply >>

\* main.py:132-138: categorize, SOS_PLAYBOOKS[category], build_prompt; then the
\* request blocks in the guidance call.  A category that is no key of
\* SOS_PLAYBOOKS raises KeyError out of the handler.
Compose(r) ==
    /\ pc[r] = "compose"
    /\ LET cat == categorize_incident(message[r])
       IN  /\ category' = [category EXCEPT ![r] = cat]
           /\ IF cat \in DOMAIN SOS_PLAYBOOKS
              THEN LET looked == SOS_PLAYBOOKS[cat]
                       steps  == IF looked = <<>> THEN UncertainText ELSE looked
                   IN  /\ sos_steps' = [sos_steps EXCEPT ![r] = steps]
                       /\ prompt' = [prompt EXCEPT ![r] =
                                        <<build_prompt(message[r], cat, steps)>>]
                       /\ pc' = [pc EXCEPT ![r] = "guidance"]
                       /\ exc' = exc
              ELSE /\ pc' = [pc EXCEPT ![r] = "failed"]
                   /\ exc' = [exc EXCEPT ![r] = "KeyError"]
                   /\ UNCHANGED << sos_steps, prompt >>
    /\ UNCHANGED << message, severity, summary, guidance, replies, heap,
                    INCIDENT_QUEUE, response, last_response, test_reply >>

\* main.py:140-146: the guidance call returns and the incident dict is built
GuidanceReturn(r, resp) ==
    /\ pc[r] = "guidance"
    /\ LET text == call_bedrock(prompt[r][1], resp)
       IN  /\ guidance' = [guidance EXCEPT ![r] = text]
           /\ heap' = (r :> [ severity          |-> severity[r],
                              responder_summary |-> summary[r],
                              citizen_guidance  |-> text ]) @@ heap
    /\ replies' = [replies EXCEPT ![r] = Append(@, resp)]
    /\ pc' = [pc EXCEPT ![r] = "append"]
    /\ UNCHANGED << message, severity, summary, category, sos_steps, prompt,
                    exc, INCIDENT_QUEUE, response, last_response, test_reply >>

\* main.py:147-149: append the dict and return that same dict
AppendRecord(r) ==
    /\ pc[r] = "append"
    /\ INCIDENT_QUEUE' = list_append(INCIDENT_QUEUE, r)
    /\ response' = [response EXCEPT ![r] = <<r>>]
    /\ pc' = [pc EXCEPT ![r] = "done"]
    /\ UNCHANGED << locals, heap, last_response, test_reply >>

\* -------------------------------------------------------- other endpoints
\* main.py:180-183: returns the list object INCIDENT_QUEUE itself
get_incidents ==
    /\ last_response' = [kind |-> "incidents", ref |-> "INCIDENT_QUEUE"]
    /\ UNCHANGED << pc, locals, heap, INCIDENT_QUEUE, response, test_reply >>

\* main.py:185-188
health_check ==
    /\ last_response' = [kind |-> "status",
                         status |-> "SafeLink Agent Core is running"]
    /\ UNCHANGED << pc, locals, heap, INCIDENT_QUEUE, response, test_reply >>

\* main.py:190-201; call_bedrock never raises, so the except branch is dead
bedrock_test(payload, resp) ==
    /\ LET p == dict_get(payload, "prompt",
                  "Provide one short, concise safety tip for a fire incident in under 30 words.")
       IN  last_response' = [kind |-> "bedrock_text",
                             bedrock_text |-> call_bedrock(p, resp)]
    /\ test_reply' = resp
    /\ UNCHANGED << pc, locals, heap, INCIDENT_QUEUE, response >>

\* ------------------------------------------- holders of returned references
\* The caller of get_incidents() holds the list object itself (main.py:183)
\* and removes its last element.
CallerPopsList ==
    /\ last_response.kind = "incidents"
    /\ INCIDENT_QUEUE # <<>>
    /\ INCIDENT_QUEUE' = SubSeq(INCIDENT_QUEUE, 1, Len(INCIDENT_QUEUE) - 1)
    /\ UNCHANGED << pc, locals, heap, response, last_response, test_reply >>

\* The caller of handle_incident() holds the stored dict itself (main.py:149)
\* and overwrites one of its values.
CallerEditsRecord(r) ==
    /\ response[r] # <<>>
    /\ heap[response[r][1]].citizen_guidance # <<>>
    /\ heap' = [heap EXCEPT ![response[r][1]].citizen_guidance = <<>>]
    /\ UNCHANGED << pc, locals, INCIDENT_QUEUE, response, last_response,
                    test_reply >>

\* ---------------------------------------------------------- specifications
\* several /incident calls in flight, with the other endpoints
Next ==
    \/ \E r \in Reqs, m \in PipelineMessages : Arrive(r, m)
    \/ \E r \in Reqs, resp \in PipelineOutcomes : SeverityReturn(r, resp)
    \/ \E r \in Reqs, resp \in PipelineOutcomes : SummaryReturn(r, resp)
    \/ \E r \in Reqs : Compose(r)
    \/ \E r \in Reqs, resp \in PipelineOutcomes : GuidanceReturn(r, resp)
    \/ \E r \in Reqs : AppendRecord(r)
    \/ get_incidents
    \/ health_check
    \/ \E resp \in PipelineOutcomes : bedrock_test([prompt |-> <<"h", "i">>], resp)

Spec == Init /\ [][Next]_vars

\* one /incident call on every message of AllMessages
NextClassify ==
    \/ \E m \in AllMessages : Arrive(1, m)
    \/ \E resp \in PipelineOutcomes : SeverityReturn(1, resp)
    \/ \E resp \in PipelineOutcomes : SummaryReturn(1, resp)
    \/ Compose(1)
    \/ \E resp \in PipelineOutcomes : GuidanceReturn(1, resp)
    \/ AppendRecord(1)

SpecClassify == Init /\ [][NextClassify]_vars

\* one /incident call and /bedrock-test calls on generations around the cap
NextCap ==
    \/ Arrive(1, <<"g", "u", "n">>)
    \/ \E resp \in CapOutcomes : SeverityReturn(1, resp)
    \/ \E resp \in CapOutcomes : SummaryReturn(1, resp)
    \/ Compose(1)
    \/ \E resp \in CapOutcomes : GuidanceReturn(1, resp)
    \/ AppendRecord(1)
    \/ \E payload \in TestPayloads, resp \in CapOutcomes : bedrock_test(payload, resp)

SpecCap == Init /\ [][NextCap]_vars

\* in-process callers that keep and write through what the handlers returned
NextCaller ==
    \/ Next
    \/ CallerPopsList
    \/ \E r \in Reqs : CallerEditsRecord(r)

SpecCaller == Init /\ [][NextCaller]_vars

\* ================================================================== claims
Composed(r) == pc[r] \in {"guidance", "append", "done"}
Finished(r) == pc[r] \in {"done", "failed"}
Occurrences(r) == Cardinality({i \in 1..Len(INCIDENT_QUEUE) : INCIDENT_QUEUE[i] = r})
BackendCalls(r) == Len(replies[r])
AllRaised(r) ==
    /\ replies[r] # <<>>
    /\ \A i \in 1..Len(replies[r]) : replies[r][i].raises

\* C1: for every category categorize_incident returns, the playbook
\* resolution of handle_incident ends without a missing-key failure and with
\* a non-empty sequence of SOP steps; for General Incident that sequence has
\* exactly one element, the uncertainty + call-emergency-services instruction.
C1_PlaybookResolutionTotal ==
    \A r \in Reqs :
        /\ exc[r] # "KeyError"
        /\ Composed(r) => Len(sos_steps[r]) >= 1
        /\ (category[r] = "General Incident" /\ Composed(r))
              => Len(sos_steps[r]) = 1

\* C2: a POST /incident call during which the backend raised in every call
\* still completes normally, and its record has the three fields, with
\* citizen_guidance the fixed error string, and is in the Incident Log.
C2_BackendFailureStillRecorded ==
    \A r \in Reqs :
        AllRaised(r) =>
            /\ pc[r] # "failed"
            /\ pc[r] = "done" =>
                  /\ DOMAIN heap[r] =
                        {"severity", "responder_summary", "citizen_guidance"}
                  /\ heap[r].citizen_guidance = ErrorText
                  /\ Occurrences(r) = 1

\* C3: once N POST /incident calls have been made and have ended, what
\* GET /incidents returns holds exactly N records, the i-th being the record
\* that the i-th call returned.
C3_RoundTrip ==
    ( /\ last_response.kind = "incidents"
      /\ \A r \in Reqs : pc[r] = "idle" \/ Finished(r) )
    => /\ Len(QueueRecords) = Cardinality({r \in Reqs : pc[r] # "idle"})
       /\ \A i \in 1..Len(QueueRecords) :
             /\ response[INCIDENT_QUEUE[i]] # <<>>
             /\ QueueRecords[i] = heap[response[INCIDENT_QUEUE[i]][1]]

\* C4: the severity of every record is High, Medium or Low as the keywords of
\* the lowercased message decide, whatever the backend did.
HighKeywords ==
    { <<"f", "i", "r", "e">>, <<"f", "l", "o", "o", "d">>,
      <<"a", "c", "c", "i", "d", "e", "n", "t">>,
      <<"c", "r", "i", "t", "i", "c", "a", "l">>,
      <<"i", "n", "j", "u", "r", "y">> }
MediumKeywords ==
    { <<"m", "i", "n", "o", "r">>, <<"m", "o", "d", "e", "r", "a", "t", "e">>,
      <<"s", "m", "a", "l", "l">> }
KeywordSeverity(m) ==
    IF \E k \in HighKeywords : Contains(k, lower(m)) THEN <<"H", "i", "g", "h">>
    ELSE IF \E k \in MediumKeywords : Contains(k, lower(m))
    THEN <<"M", "e", "d", "i", "u", "m">>
    ELSE <<"L", "o", "w">>
C4_SeverityByKeywords ==
    \A r \in Reqs :
        pc[r] \in {"append", "done"}
            => heap[r].severity = KeywordSeverity(message[r])

\* C5: categorize_incident yields one of the four categories for every
\* message, by keyword presence in the lowercased message with priority
\* Medical Emergency > Hazmat > Active Shooter > General Incident.
HasMedical(m) ==
    \/ Contains(KwFaint, lower(m))
    \/ Contains(KwCollapsed, lower(m))
    \/ Contains(KwNotBreathing, lower(m))
HasHazmat(m) == Contains(KwChemical, lower(m)) \/ Contains(KwSpill, lower(m))
HasWeapon(m) == Contains(KwShoot, lower(m)) \/ Contains(KwGun, lower(m))
C5_CategoryPriority ==
    \A r \in Reqs :
        category[r] # "" =>
            LET m == message[r] IN
            /\ category[r] \in {"Medical Emergency", "Hazmat",
                                "Active Shooter", "General Incident"}
            /\ HasMedical(m) => category[r] = "Medical Emergency"
            /\ (~HasMedical(m) /\ HasHazmat(m)) => category[r] = "Hazmat"
            /\ (~HasMedical(m) /\ ~HasHazmat(m) /\ HasWeapon(m))
                  => category[r] = "Active Shooter"
            /\ (~HasMedical(m) /\ ~HasHazmat(m) /\ ~HasWeapon(m))
                  => category[r] = "General Incident"
C5_Witness ==
    \E r \in Reqs :
        /\ category[r] = "Medical Emergency"
        /\ HasMedical(message[r])
        /\ HasHazmat(message[r]) \/ HasWeapon(message[r])

\* C6: every text call_bedrock returned (the locals of handle_incident, the
\* fields of the stored records, the /bedrock-test response) has at most
\* 500 + 3 characters; a generation longer than 500 characters after strip()
\* comes back as its first 500 characters followed by "...", and one of at
\* most 500 characters comes back without the marker: as it is, or, when it
\* is empty, as the fixed no-response text.
Stripped(resp) == strip(dict_get(resp.body, "generation", <<>>))
TrimmedAsClaimed(resp, out) ==
    /\ Len(out) <= TrimCap + 3
    /\ ~resp.raises =>
          /\ Len(Stripped(resp)) > TrimCap
                => out = SubSeq(Stripped(resp), 1, TrimCap) \o <<".", ".", ".">>
          /\ (Len(Stripped(resp)) \in 1..TrimCap) => out = Stripped(resp)
          /\ Len(Stripped(resp)) = 0
                => out = <<"N", "o", " ", "r", "e", "s", "p", "o", "n", "s", "e",
                           " ", "f", "r", "o", "m", " ", "m", "o", "d", "e", "l",
                           ".">>
C6_OutputCapped ==
    /\ \A r \in Reqs :
          /\ BackendCalls(r) >= 1 => TrimmedAsClaimed(replies[r][1], severity[r])
          /\ BackendCalls(r) >= 2 => TrimmedAsClaimed(replies[r][2], summary[r])
          /\ BackendCalls(r) >= 3 => TrimmedAsClaimed(replies[r][3], guidance[r])
    /\ \A i \in 1..Len(QueueRecords) :
          /\ Len(QueueRecords[i].severity) <= TrimCap + 3
          /\ Len(QueueRecords[i].responder_summary) <= TrimCap + 3
          /\ Len(QueueRecords[i].citizen_guidance) <= TrimCap + 3
    /\ last_response.kind = "bedrock_text"
          => TrimmedAsClaimed(test_reply, last_response.bedrock_text)
C6_Witness ==
    /\ Len(QueueRecords) = 1
    /\ ~replies[INCIDENT_QUEUE[1]][3].raises
    /\ Len(Stripped(replies[INCIDENT_QUEUE[1]][3])) = 2 * TrimCap
    /\ Len(QueueRecords[1].citizen_guidance) = TrimCap + 3
    /\ SubSeq(QueueRecords[1].citizen_guidance, TrimCap + 1, TrimCap + 3)
          = <<".", ".", ".">>
    /\ last_response.kind = "bedrock_text"
    /\ ~test_reply.raises
    /\ Len(Stripped(test_reply)) = TrimCap
    /\ last_response.bedrock_text = Stripped(test_reply)

\* C7: with several calls in flight, a request has its record in the log
\* exactly once from its append step on and not before, every record in the
\* log is whole, and each append step puts the record behind all records
\* appended before it, whatever the order of arrival.
C7_SerializedAppends ==
    /\ [](\A r \in Reqs :
             /\ pc[r] = "done" => Occurrences(r) = 1
             /\ pc[r] # "done" => Occurrences(r) = 0)
    /\ [](\A i \in 1..Len(INCIDENT_QUEUE) :
             QueueRecords[i] =
                 [ severity          |-> severity[INCIDENT_QUEUE[i]],
                   responder_summary |-> summary[INCIDENT_QUEUE[i]],
                   citizen_guidance  |-> guidance[INCIDENT_QUEUE[i]] ])
    /\ [][\A r \in Reqs :
             (pc[r] = "append" /\ pc'[r] = "done")
                => INCIDENT_QUEUE' = INCIDENT_QUEUE \o <<r>>]_vars
C7_Witness ==
    /\ Len(INCIDENT_QUEUE) >= 2
    /\ INCIDENT_QUEUE[1] > INCIDENT_QUEUE[2]
    /\ last_response.kind = "incidents"

\* C8: every step leaves the log as it is or adds one record at its end;
\* only the last step of a POST /incident call adds one; a step of
\* GET /incidents, GET / or POST /bedrock-test, and a failing POST /incident
\* call, leave it as it is.
C8_LogOnlyGrows ==
    /\ [][ /\ \/ QueueRecords' = QueueRecords
              \/ /\ Len(QueueRecords') = Len(QueueRecords) + 1
                 /\ SubSeq(QueueRecords', 1, Len(QueueRecords)) = QueueRecords
           /\ QueueRecords' # QueueRecords
                 => \E r \in Reqs : pc[r] = "append" /\ pc'[r] = "done"
           /\ pc' = pc => QueueRecords' = QueueRecords
           /\ (\E r \in Reqs : pc[r] # "failed" /\ pc'[r] = "failed")
                 => QueueRecords' = QueueRecords ]_vars
    /\ [](\A r \in Reqs : pc[r] = "failed" => Occurrences(r) = 0)
C8_Witness ==
    /\ Len(INCIDENT_QUEUE) >= 1
    /\ \E r \in Reqs : pc[r] = "failed"
    /\ last_response.kind = "bedrock_text"

\* C9: a step in which no handler runs, taken by whoever holds the value a
\* handler returned, leaves the contents of the Incident Log as they are.
C9_SnapshotIsolation ==
    [][ (pc' = pc /\ last_response' = last_response /\ test_reply' = test_reply)
           => QueueRecords' = QueueRecords ]_vars

\* C10: the prompt built for a request carries the message, the category and
\* one line per SOP step of the category's playbook, line k being k, ". " and
\* the k-th step; building it makes no backend call.
C10_NumberedSteps ==
    /\ [](\A r \in Reqs :
             prompt[r] # <<>> =>
                LET p == prompt[r][1] IN
                /\ sos_steps[r] = SOS_PLAYBOOKS[category[r]]
                /\ p.incident = message[r]
                /\ p.category = category[r]
                /\ Len(p.sop_text) = Len(sos_steps[r])
                /\ \A k \in 1..Len(sos_steps[r]) :
                      p.sop_text[k] = <<k, ". ", sos_steps[r][k]>>)
    /\ [][\A r \in Reqs :
             (pc[r] = "compose" /\ pc'[r] # "compose")
                => BackendCalls(r)' = BackendCalls(r)]_vars
C10_Witness ==
    \E r \in Reqs :
        /\ prompt[r] # <<>>
        /\ category[r] = "Medical Emergency"
        /\ Len(prompt[r][1].sop_text) = 5
        /\ prompt[r][1].sop_text[5] =
              <<5, ". ", "Stay with the person until responders arrive.">>

====
